---- MODULE Spec2Model ----
(***************************************************************************)
(* Invoice issuance and archival pipeline of the GoBD invoice generator:   *)
(* the number allocator, the issuance orchestrator (create_invoice), the   *)
(* timestamp service, the archival store and cancellation, as request      *)
(* workers acting on one database and one archival store.                  *)
(***************************************************************************)
EXTENDS Integers, Sequences, FiniteSets, TLC

\* ------------------------------------------------------------------ bounds
NumWorkers == 2        \* request workers that can run at the same time
MaxRequests == 3       \* requests accepted in one run
MaxCreates == 2        \* of which invoice creations
MaxClock == 1          \* last clock reading
TicksPerYear == 1      \* clock readings per calendar year
MaxVersions == 3       \* entries the archival store holds in the storage-only runs

\* --------------------------------------------------------- program constants
INVOICE_NUMBER_START == 10000
INVOICE_NUMBER_PREFIX == "RE"
TSA_URL == "http://timestamp.digicert.com"
TSA_HASH_ALGORITHM == "SHA256"

Workers == 1..NumWorkers
NoVal == [none |-> TRUE]

\* ----------------------------------------------------------- pure functions
RECURSIVE Dec(_)
\* decimal digits of a natural number, most significant first
Dec(n) == IF n < 10 THEN <<n>> ELSE Append(Dec(n \div 10), n % 10)

RECURSIVE PadLeft(_, _)
\* the :06d part of the format: zero-padded to at least k digits
PadLeft(ds, k) == IF Len(ds) >= k THEN ds ELSE PadLeft(<<0>> \o ds, k)

\* f"{prefix}{sequence.current_number:06d}"
FormatNumber(n) == [prefix |-> INVOICE_NUMBER_PREFIX, digits |-> PadLeft(Dec(n), 6)]

\* hashlib.sha256(b).hexdigest(): a collision-free digest of the bytes
Sha256(b) == [sha256 |-> b]

\* datetime.utcnow().year
YearOf(t) == t \div TicksPerYear

\* round(x, 2) of an amount given as num/den cents: to the nearest cent, ties to even
\* (what round() returns when the binary product is the exact one, as it is for the
\* amounts used here)
Round2(num, den) ==
    LET q == num \div den
        r == num % den
    IN  IF 2 * r > den THEN q + 1
        ELSE IF 2 * r < den THEN q
        ELSE IF q % 2 = 0 THEN q ELSE q + 1

\* one line of the totals loop: unit_price in thousandths, the amounts in cents
LineComputed(item, idx) ==
    LET line_net == Round2(item.quantity * item.unit_price, 10)
        tax_amount == Round2(line_net * item.tax_rate, 100)
    IN  [position |-> idx, quantity |-> item.quantity, unit_price |-> item.unit_price,
         line_net |-> line_net, tax_rate |-> item.tax_rate, tax_amount |-> tax_amount,
         line_gross |-> Round2(line_net + tax_amount, 1)]

RECURSIVE SumField(_, _)
SumField(items, f) ==
    IF items = <<>> THEN 0 ELSE items[1][f] + SumField(Tail(items), f)

\* f"{x:.2f}" of an amount of cents
Fmt2(c) == [int |-> Dec(c \div 100), frac |-> <<(c \div 10) % 10, c % 10>>]

\* steps 2 of create_invoice: the line items and the three totals
ComputeTotals(draft) ==
    LET lines == [i \in 1..Len(draft.line_items) |-> LineComputed(draft.line_items[i], i)]
        net == SumField(lines, "line_net")
        tax == SumField(lines, "tax_amount")
    IN  [line_items |-> lines, net_total |-> net, tax_total |-> tax,
         gross_total |-> Round2(net + tax, 1)]

\* ------------------------------------------------------------------ inputs
SellerA == [name |-> "Muster GmbH", tax_id |-> "DE123456789"]
DraftA == [issue_date |-> "20260105", currency |-> "EUR",
           seller |-> SellerA, buyer |-> [name |-> "Kunde A", tax_id |-> "DE999"],
           line_items |-> <<[quantity |-> 2, unit_price |-> 50000, tax_rate |-> 19]>>,
           delivery_date_start |-> "20260105", payment_terms |-> "14 Tage"]
DraftB == [issue_date |-> "20260106", currency |-> "EUR",
           seller |-> SellerA, buyer |-> [name |-> "Kunde B", tax_id |-> ""],
           line_items |-> <<[quantity |-> 1, unit_price |-> 10050, tax_rate |-> 7],
                            [quantity |-> 3, unit_price |-> 3330, tax_rate |-> 19]>>,
           delivery_date_start |-> "", payment_terms |-> ""]
\* the draft the issuance requests carry; the totals of other drafts are computed
\* in the runs of the totals computation alone
Drafts == {DraftA}

\* drafts that break one field constraint each
NoLines == [DraftA EXCEPT !.line_items = <<>>]
ZeroQuantity == [DraftA EXCEPT !.line_items[1].quantity = 0]
NegativePrice == [DraftA EXCEPT !.line_items[1].unit_price = -1]
TaxRateOver == [DraftA EXCEPT !.line_items[1].tax_rate = 101]
InvalidDrafts == {NoLines, ZeroQuantity, NegativePrice, TaxRateOver}

\* ValidDraft checking the parties only
ValidDraftPartiesOnly(d) ==
    /\ d.seller.name # "" /\ d.seller.tax_id # ""
    /\ d.buyer.name # ""

\* the Field(...) constraints of InvoiceCreate, Seller, Buyer and LineItemBase
ValidDraft(d) ==
    /\ d.seller.name # "" /\ d.seller.tax_id # ""
    /\ d.buyer.name # ""
    /\ Len(d.line_items) >= 1
    /\ \A i \in DOMAIN d.line_items :
        /\ d.line_items[i].quantity > 0
        /\ d.line_items[i].unit_price >= 0
        /\ d.line_items[i].tax_rate >= 0 /\ d.line_items[i].tax_rate <= 100
UserIds == {1}
Reasons == {"Storno"}

VARIABLES
    seq,        \* the committed invoice_number_sequence row of the prefix, or NoVal
    seqLock,    \* the worker holding the row lock (or the uncommitted insert), 0 if none
    invoices,   \* the committed invoices table: a set of records
    line_items, \* the committed invoice_line_items table
    audit,      \* the committed audit_logs table, in insertion order
    nextId,     \* the next value of invoices.id
    objects,    \* the archival store: per key, its entries [body, kind], oldest first
    use_local,  \* StorageService.use_local
    versioning, \* whether the bucket keeps versions
    procs,      \* the server processes of the deployment; a process runs one handler at a time
    contacts,   \* the committed contacts table: a set of records
    local_files, \* the files a local storage directory holds after the same storage calls
    now,        \* the clock
    started,    \* requests accepted so far
    creates,    \* invoice creations accepted so far
    resp,       \* the status code of the latest response sent, 0 before the first
    allocated,  \* the numbers _generate_invoice_number has returned, in order
    w           \* per worker: the position in its handler and the handler's locals

vars == <<seq, seqLock, invoices, line_items, audit, nextId, objects, use_local,
          versioning, procs, contacts, local_files, now, started, creates, resp,
          allocated, w>>

dbVars == <<invoices, line_items, audit, nextId>>
\* what no handler of the invoice endpoints writes
envVars == <<procs, contacts, local_files>>
storeVars == <<objects, use_local, versioning>>

Idle == [pc |-> "idle", op |-> "none", draft |-> NoVal, user |-> 0, number |-> NoVal,
         cur |-> 0, totals |-> NoVal, xml |-> NoVal, pdf |-> NoVal, signed |-> NoVal,
         token |-> NoVal, tsa |-> "none", pdf_hash |-> NoVal, pdf_path |-> NoVal,
         xml_path |-> NoVal, inv_id |-> 0, created_at |-> 0, target |-> 0,
         reason |-> "", validated |-> FALSE]

\* the sequence row a database that has issued numbers before holds
SeqBase == 999998

\* ----------------------------------------------------------- archival store
StorageKey(t, number, ext) == [year |-> YearOf(t), number |-> number, ext |-> ext]

\* the store without a key
WithoutKey(objs, key) == {o \in objs : o.key # key}

\* the entries of one key, oldest first
OfKey(objs, key) ==
    IF \E o \in objs : o.key = key
    THEN (CHOOSE o \in objs : o.key = key).entries
    ELSE <<>>

\* the store with one more entry under a key
WithEntry(objs, key, entry) ==
    WithoutKey(objs, key) \cup {[key |-> key, entries |-> Append(OfKey(objs, key), entry)]}

\* file_path.write_bytes (local) or put_object (bucket): a bucket with versioning
\* keeps the earlier entries of the key, anything else replaces them
PutObject(objs, local, versioned, key, body) ==
    LET entry == [body |-> body, kind |-> "object"]
    IN  IF ~local /\ versioned THEN WithEntry(objs, key, entry)
        ELSE WithEntry(WithoutKey(objs, key), key, entry)

\* StorageService.get_file: the bytes of the key's latest entry, NoVal for FileNotFoundError
GetFile(objs, key) ==
    LET es == OfKey(objs, key)
    IN  IF es = <<>> \/ es[Len(es)].kind = "marker" THEN NoVal ELSE es[Len(es)].body

\* StorageService.list_versions: the 'Versions' of the key; without an s3_client the call raises
ListVersions(objs, local, key) ==
    IF local THEN [raised |-> "AttributeError"]
    ELSE [versions |-> SelectSeq(OfKey(objs, key), LAMBDA e : e.kind = "object")]

\* StorageService.delete_object: a delete marker under versioning, a removal without;
\* without an s3_client the call raises and nothing changes
DeleteObject(objs, local, versioned, key) ==
    IF local THEN objs
    ELSE IF versioned THEN WithEntry(objs, key, [body |-> NoVal, kind |-> "marker"])
    ELSE WithoutKey(objs, key)

\* ------------------------------------------------------- document producers
\* ZugferdGenerate writing the net total as GrandTotalAmount
ZugferdGenerateGrandTotalNet(number, draft, totals) ==
    [root |-> "CrossIndustryInvoice", id |-> number, seller |-> draft.seller,
     buyer |-> draft.buyer, line_items |-> totals.line_items,
     net_total |-> Fmt2(totals.net_total), tax_total |-> Fmt2(totals.tax_total),
     gross_total |-> Fmt2(totals.net_total), delivery |-> "", payment_terms |-> ""]

\* ZUGFeRDGenerator.generate as create_invoice calls it (no delivery dates, no payment terms)
ZugferdGenerate(number, draft, totals) ==
    [root |-> "CrossIndustryInvoice", id |-> number, seller |-> draft.seller,
     buyer |-> draft.buyer, line_items |-> totals.line_items,
     net_total |-> Fmt2(totals.net_total), tax_total |-> Fmt2(totals.tax_total),
     gross_total |-> Fmt2(totals.gross_total), delivery |-> "", payment_terms |-> ""]

\* ZUGFeRDGenerator.validate: the root element and the required elements are there
Validate(xml) ==
    /\ xml.root = "CrossIndustryInvoice"
    /\ {"id", "seller", "buyer", "gross_total"} \subseteq DOMAIN xml

\* PDFGenerator.generate: the rendered pages with the structured bytes embedded; the
\* totals are the amounts of the totals block, each printed before the currency code
PdfGenerate(number, draft, totals, xml) ==
    [invoice_number |-> number, seller |-> draft.seller, buyer |-> draft.buyer,
     net_total |-> Fmt2(totals.net_total), tax_total |-> Fmt2(totals.tax_total),
     gross_total |-> Fmt2(totals.gross_total), payment_terms |-> draft.payment_terms,
     embedded |-> xml]

SignOutcomes == {"stamped", "authority_failed", "other_error"}

\* SignatureService._add_timestamp: the try block ran through (stamped) or raised,
\* at the authority call (authority_failed) or at any other statement (other_error)
AddTimestamp(pdf, outcome, t) ==
    IF outcome = "stamped"
    THEN [signed |-> [stamped |-> pdf],
          token |-> [tsa_url |-> TSA_URL, timestamp |-> t,
                     hash_algorithm |-> TSA_HASH_ALGORITHM, pdf_hash |-> Sha256(pdf),
                     signed_pdf_hash |-> Sha256([stamped |-> pdf])]]
    ELSE [signed |-> pdf,
          token |-> [tsa_url |-> "mock_tsa", timestamp |-> t,
                     hash_algorithm |-> TSA_HASH_ALGORITHM, pdf_hash |-> Sha256(pdf),
                     signed_pdf_hash |-> Sha256(pdf),
                     warning |-> "Mock timestamp - not for production use"]]

HasMarker(token) == "warning" \in DOMAIN token /\ token.tsa_url = "mock_tsa"

\* ------------------------------------------------------------ table helpers
ById(id) == {i \in invoices : i.id = id}
Lookup(id) == CHOOSE i \in invoices : i.id = id

\* NewInvoice built before the documents are hashed and stored
NewInvoiceWithoutDocuments(l) ==
    [id |-> l.inv_id, invoice_number |-> l.number, issue_date |-> l.draft.issue_date,
     currency |-> l.draft.currency, seller |-> l.draft.seller,
     buyer |-> l.draft.buyer, net_total |-> l.totals.net_total,
     tax_total |-> l.totals.tax_total, gross_total |-> l.totals.gross_total,
     pdfa3_path |-> NoVal, zugferd_xml_path |-> NoVal,
     pdf_hash |-> NoVal, tsa_token |-> l.token, status |-> "draft",
     is_immutable |-> TRUE, created_by |-> l.user, created_at |-> l.created_at,
     updated_at |-> l.created_at]

\* the Invoice(...) row of step 8
NewInvoice(l) ==
    [id |-> l.inv_id, invoice_number |-> l.number, issue_date |-> l.draft.issue_date,
     currency |-> l.draft.currency, seller |-> l.draft.seller,
     buyer |-> l.draft.buyer, net_total |-> l.totals.net_total,
     tax_total |-> l.totals.tax_total, gross_total |-> l.totals.gross_total,
     pdfa3_path |-> l.pdf_path, zugferd_xml_path |-> l.xml_path,
     pdf_hash |-> l.pdf_hash, tsa_token |-> l.token, status |-> "issued",
     is_immutable |-> TRUE, created_by |-> l.user, created_at |-> l.created_at,
     updated_at |-> l.created_at]

\* the InvoiceLineItem rows of step 9
NewLineItems(l) ==
    {[invoice_id |-> l.inv_id, item |-> l.totals.line_items[i]] :
        i \in 1..Len(l.totals.line_items)}

\* the AuditLog row of step 10
CreateAudit(l) ==
    [user_id |-> l.user, entity_id |-> l.inv_id, action |-> "create",
     details |-> [invoice_number |-> l.number, gross_total |-> l.totals.gross_total,
                  buyer |-> l.draft.buyer.name]]

\* CancelAudit without the reason
CancelAuditWithoutReason(l, inv) ==
    [user_id |-> l.user, entity_id |-> inv.id, action |-> "cancel",
     details |-> [invoice_number |-> inv.invoice_number, reason |-> ""]]

\* the AuditLog row of cancel_invoice
CancelAudit(l, inv) ==
    [user_id |-> l.user, entity_id |-> inv.id, action |-> "cancel",
     details |-> [invoice_number |-> inv.invoice_number, reason |-> l.reason]]

\* CancelledRow that also sets the totals to zero
CancelledRowZeroTotals(inv, t) ==
    [inv EXCEPT !.status = "cancelled", !.updated_at = t, !.net_total = 0,
                !.tax_total = 0, !.gross_total = 0]

\* invoice.status = "cancelled" as the UPDATE writes it (updated_at has onupdate)
CancelledRow(inv, t) == [inv EXCEPT !.status = "cancelled", !.updated_at = t]

\* --------------------------------------------------------------------- Init
Init ==
    /\ seq \in {NoVal, [current_number |-> SeqBase]}
    /\ seqLock = 0
    /\ invoices = {}
    /\ line_items = {}
    /\ audit = <<>>
    /\ nextId = 1
    /\ objects = {}
    /\ contacts = {}
    /\ local_files = {}
    /\ use_local \in BOOLEAN
    /\ versioning = ~use_local
    /\ procs \in 1..NumWorkers
    /\ now = 0
    /\ started = 0
    /\ creates = 0
    /\ resp = 0
    /\ allocated = <<>>
    /\ w = [p \in Workers |-> Idle]

\* ------------------------------------------------------------ common steps
Available(p) == w[p].pc = "idle"

\* the next request goes to the free worker of the lowest index
CanStart(p) ==
    /\ started < MaxRequests
    /\ p <= procs
    /\ Available(p)
    /\ \A q \in Workers : q < p => ~Available(q)

\* the handler returns: the response goes out and the worker is free again
Respond(p, code) ==
    /\ w' = [w EXCEPT ![p] = Idle]
    /\ resp' = code

\* an exception reaches the endpoint's handler, which answers 500; the session is
\* closed, which rolls back and gives up the row lock
Raise(p) ==
    /\ Respond(p, 500)
    /\ seqLock' = IF seqLock = p THEN 0 ELSE seqLock

\* the steps that read the clock
ClockReaders == {"sign", "store_pdf", "store_xml", "flush", "cancel_commit"}

\* the clock advances; only its readings matter, so it advances before a reading
Tick ==
    /\ now < MaxClock
    /\ \E p \in Workers : w[p].pc \in ClockReaders
    /\ now' = now + 1
    /\ UNCHANGED <<seq, seqLock, dbVars, storeVars, envVars, started, creates, resp, allocated, w>>

\* --------------------------------------------------- POST /api/invoices
StartCreate(p, d, u) ==
    /\ CanStart(p)
    /\ ValidDraft(d)
    /\ creates < MaxCreates
    /\ started' = started + 1
    /\ creates' = creates + 1
    /\ w' = [w EXCEPT ![p] = [Idle EXCEPT !.pc = "alloc", !.op = "create",
                                          !.draft = d, !.user = u]]
    /\ UNCHANGED <<seq, seqLock, dbVars, storeVars, envVars, now, resp, allocated>>

\* the request body fails the validation of InvoiceCreate: 422 before the handler runs
RejectCreate(p, d) ==
    /\ CanStart(p)
    /\ ~ValidDraft(d)
    /\ started' = started + 1
    /\ Respond(p, 422)
    /\ UNCHANGED <<seq, seqLock, dbVars, storeVars, envVars, now, creates, allocated>>

\* AllocRead without with_for_update(): the row is read while another worker holds it
AllocReadNoLock(p) ==
    /\ w[p].pc = "alloc"
    /\ IF seq = NoVal
       THEN w' = [w EXCEPT ![p].pc = "alloc_insert"]
       ELSE w' = [w EXCEPT ![p].pc = "alloc_commit", ![p].cur = seq.current_number]
    /\ UNCHANGED <<seq, seqLock, dbVars, storeVars, envVars, now, started, creates, resp, allocated>>

\* _generate_invoice_number: SELECT ... FOR UPDATE of the prefix's row
AllocRead(p) ==
    /\ w[p].pc = "alloc"
    /\ IF seq = NoVal
       THEN /\ w' = [w EXCEPT ![p].pc = "alloc_insert"]
            /\ UNCHANGED seqLock
       ELSE /\ seqLock = 0
            /\ seqLock' = p
            /\ w' = [w EXCEPT ![p].pc = "alloc_commit", ![p].cur = seq.current_number]
    /\ UNCHANGED <<seq, dbVars, storeVars, envVars, now, started, creates, resp, allocated>>

\* _generate_invoice_number: no row was found, add one and flush
AllocInsert(p) ==
    /\ w[p].pc = "alloc_insert"
    /\ seqLock = 0
    /\ IF seq # NoVal
       THEN Raise(p)
       ELSE /\ seqLock' = p
            /\ w' = [w EXCEPT ![p].pc = "alloc_commit", ![p].cur = INVOICE_NUMBER_START]
            /\ UNCHANGED resp
    /\ UNCHANGED <<seq, dbVars, storeVars, envVars, now, started, creates, allocated>>

\* AllocCommit returning the number without the commit that gives up the row lock
AllocCommitKeepingLock(p) ==
    /\ w[p].pc = "alloc_commit"
    /\ \E ok \in BOOLEAN :
        IF ok
        THEN /\ seq' = [current_number |-> w[p].cur + 1]
             /\ seqLock' = p
             /\ allocated' = Append(allocated, FormatNumber(w[p].cur))
             /\ w' = [w EXCEPT ![p].pc = "compute", ![p].cur = 0,
                               ![p].number = FormatNumber(w[p].cur)]
             /\ UNCHANGED resp
        ELSE /\ Raise(p)
             /\ UNCHANGED <<seq, allocated>>
    /\ UNCHANGED <<dbVars, storeVars, envVars, now, started, creates>>

\* AllocCommit whose failed commit leaves the incremented row behind
AllocCommitFailureKeepsIncrement(p) ==
    /\ w[p].pc = "alloc_commit"
    /\ \E ok \in BOOLEAN :
        IF ok
        THEN /\ seq' = [current_number |-> w[p].cur + 1]
             /\ seqLock' = 0
             /\ allocated' = Append(allocated, FormatNumber(w[p].cur))
             /\ w' = [w EXCEPT ![p].pc = "compute", ![p].cur = 0,
                               ![p].number = FormatNumber(w[p].cur)]
             /\ UNCHANGED resp
        ELSE /\ Raise(p)
             /\ seq' = [current_number |-> w[p].cur + 1]
             /\ UNCHANGED allocated
    /\ UNCHANGED <<dbVars, storeVars, envVars, now, started, creates>>

\* AllocCommit without the increment of current_number
AllocCommitNoIncrement(p) ==
    /\ w[p].pc = "alloc_commit"
    /\ seq' = [current_number |-> w[p].cur]
    /\ seqLock' = 0
    /\ allocated' = Append(allocated, FormatNumber(w[p].cur))
    /\ w' = [w EXCEPT ![p].pc = "compute", ![p].cur = 0,
                      ![p].number = FormatNumber(w[p].cur)]
    /\ UNCHANGED <<dbVars, storeVars, envVars, now, started, creates, resp>>

\* _generate_invoice_number: format, increment, commit
AllocCommit(p) ==
    /\ w[p].pc = "alloc_commit"
    /\ \E ok \in BOOLEAN :
        IF ok
        THEN /\ seq' = [current_number |-> w[p].cur + 1]
             /\ seqLock' = 0
             /\ allocated' = Append(allocated, FormatNumber(w[p].cur))
             /\ w' = [w EXCEPT ![p].pc = "compute", ![p].cur = 0,
                               ![p].number = FormatNumber(w[p].cur)]
             /\ UNCHANGED resp
        ELSE /\ Raise(p)
             /\ UNCHANGED <<seq, allocated>>
    /\ UNCHANGED <<dbVars, storeVars, envVars, now, started, creates>>

\* step 2: totals
Compute(p) ==
    /\ w[p].pc = "compute"
    /\ w' = [w EXCEPT ![p].pc = "encode", ![p].totals = ComputeTotals(w[p].draft)]
    /\ UNCHANGED <<seq, seqLock, dbVars, storeVars, envVars, now, started, creates, resp, allocated>>

\* step 3: structured document
Encode(p) ==
    /\ w[p].pc = "encode"
    /\ \E ok \in BOOLEAN :
        IF ok
        THEN /\ w' = [w EXCEPT ![p].pc = "compose",
                        ![p].xml = ZugferdGenerate(w[p].number, w[p].draft, w[p].totals)]
             /\ UNCHANGED <<seqLock, resp>>
        ELSE Raise(p)
    /\ UNCHANGED <<seq, dbVars, storeVars, envVars, now, started, creates, allocated>>

\* step 4: visual document
Compose(p) ==
    /\ w[p].pc = "compose"
    /\ \E ok \in BOOLEAN :
        IF ok
        THEN /\ w' = [w EXCEPT ![p].pc = "sign",
                        ![p].pdf = PdfGenerate(w[p].number, w[p].draft, w[p].totals, w[p].xml)]
             /\ UNCHANGED <<seqLock, resp>>
        ELSE Raise(p)
    /\ UNCHANGED <<seq, dbVars, storeVars, envVars, now, started, creates, allocated>>

\* Sign letting the exception of _add_timestamp out
SignRaising(p) ==
    /\ w[p].pc = "sign"
    /\ \E outcome \in SignOutcomes :
        IF outcome = "stamped"
        THEN LET r == AddTimestamp(w[p].pdf, outcome, now)
             IN  /\ w' = [w EXCEPT ![p].pc = "hash", ![p].tsa = outcome,
                                   ![p].signed = r.signed, ![p].token = r.token]
                 /\ UNCHANGED <<seqLock, resp>>
        ELSE Raise(p)
    /\ UNCHANGED <<seq, dbVars, storeVars, envVars, now, started, creates, allocated>>

\* step 5: sign_pdf
Sign(p) ==
    /\ w[p].pc = "sign"
    /\ \E outcome \in SignOutcomes :
        LET r == AddTimestamp(w[p].pdf, outcome, now)
        IN  w' = [w EXCEPT ![p].pc = "hash", ![p].tsa = outcome,
                           ![p].signed = r.signed, ![p].token = r.token]
    /\ UNCHANGED <<seq, seqLock, dbVars, storeVars, envVars, now, started, creates, resp, allocated>>

\* Hash handing over to the metadata step, leaving out the store
HashSkippingStore(p) ==
    /\ w[p].pc = "hash"
    /\ w' = [w EXCEPT ![p].pc = "flush", ![p].tsa = "none",
                      ![p].pdf_hash = Sha256(w[p].signed)]
    /\ UNCHANGED <<seq, seqLock, dbVars, storeVars, envVars, now, started, creates, resp, allocated>>

\* Hash taking the digest of the bytes before signing
HashOfUnsigned(p) ==
    /\ w[p].pc = "hash"
    /\ w' = [w EXCEPT ![p].pc = "store_pdf", ![p].tsa = "none",
                      ![p].pdf_hash = Sha256(w[p].pdf)]
    /\ UNCHANGED <<seq, seqLock, dbVars, storeVars, envVars, now, started, creates, resp, allocated>>

\* step 6: content hash
Hash(p) ==
    /\ w[p].pc = "hash"
    /\ w' = [w EXCEPT ![p].pc = "store_pdf", ![p].tsa = "none",
                      ![p].pdf_hash = Sha256(w[p].signed)]
    /\ UNCHANGED <<seq, seqLock, dbVars, storeVars, envVars, now, started, creates, resp, allocated>>

\* StorePdf returning the key without writing the object
StorePdfPathOnly(p) ==
    /\ w[p].pc = "store_pdf"
    /\ \E ok \in BOOLEAN :
        IF ok
        THEN LET key == StorageKey(now, w[p].number, "pdf")
             IN  /\ w' = [w EXCEPT ![p].pc = "store_xml", ![p].pdf_path = key]
                 /\ UNCHANGED <<seqLock, resp, objects>>
        ELSE /\ Raise(p)
             /\ UNCHANGED objects
    /\ UNCHANGED <<seq, dbVars, use_local, versioning, envVars, now, started, creates, allocated>>

\* step 7, first call: store_pdf
StorePdf(p) ==
    /\ w[p].pc = "store_pdf"
    /\ \E ok \in BOOLEAN :
        IF ok
        THEN LET key == StorageKey(now, w[p].number, "pdf")
             IN  /\ objects' = PutObject(objects, use_local, versioning, key, w[p].signed)
                 /\ w' = [w EXCEPT ![p].pc = "store_xml", ![p].pdf_path = key]
                 /\ UNCHANGED <<seqLock, resp>>
        ELSE /\ Raise(p)
             /\ UNCHANGED objects
    /\ UNCHANGED <<seq, dbVars, use_local, versioning, envVars, now, started, creates, allocated>>

\* StoreXml removing the stored PDF when its own write fails
StoreXmlCleaningUp(p) ==
    /\ w[p].pc = "store_xml"
    /\ \E ok \in BOOLEAN :
        IF ok
        THEN LET key == StorageKey(now, w[p].number, "xml")
             IN  /\ objects' = PutObject(objects, use_local, versioning, key, w[p].xml)
                 /\ w' = [w EXCEPT ![p].pc = "flush", ![p].xml_path = key]
                 /\ UNCHANGED <<seqLock, resp>>
        ELSE /\ Raise(p)
             /\ objects' = WithoutKey(objects, w[p].pdf_path)
    /\ UNCHANGED <<seq, dbVars, use_local, versioning, envVars, now, started, creates, allocated>>

\* step 7, second call: store_xml
StoreXml(p) ==
    /\ w[p].pc = "store_xml"
    /\ \E ok \in BOOLEAN :
        IF ok
        THEN LET key == StorageKey(now, w[p].number, "xml")
             IN  /\ objects' = PutObject(objects, use_local, versioning, key, w[p].xml)
                 /\ w' = [w EXCEPT ![p].pc = "flush", ![p].xml_path = key]
                 /\ UNCHANGED <<seqLock, resp>>
        ELSE /\ Raise(p)
             /\ UNCHANGED objects
    /\ UNCHANGED <<seq, dbVars, use_local, versioning, envVars, now, started, creates, allocated>>

\* Flush on a table without the unique constraint on invoice_number
FlushWithoutUnique(p) ==
    /\ w[p].pc = "flush"
    /\ \E ok \in BOOLEAN :
        IF ok
        THEN /\ nextId' = nextId + 1
             /\ w' = [w EXCEPT ![p].pc = "commit", ![p].inv_id = nextId,
                               ![p].created_at = now]
             /\ UNCHANGED <<seqLock, resp>>
        ELSE /\ Raise(p)
             /\ UNCHANGED nextId
    /\ UNCHANGED <<seq, invoices, line_items, audit, storeVars, envVars, now, started, creates, allocated>>

\* Flush committing the invoice row on its own
FlushCommitting(p) ==
    /\ w[p].pc = "flush"
    /\ \A q \in Workers \ {p} : ~(w[q].pc = "commit" /\ w[q].number = w[p].number)
    /\ \E ok \in BOOLEAN :
        IF ok /\ \A i \in invoices : i.invoice_number # w[p].number
        THEN /\ nextId' = nextId + 1
             /\ w' = [w EXCEPT ![p].pc = "commit", ![p].inv_id = nextId,
                               ![p].created_at = now]
             /\ invoices' = invoices \cup {NewInvoice(w'[p])}
             /\ UNCHANGED <<seqLock, resp>>
        ELSE /\ Raise(p)
             /\ UNCHANGED <<nextId, invoices>>
    /\ UNCHANGED <<seq, line_items, audit, storeVars, envVars, now, started, creates, allocated>>

\* step 8: db.add(db_invoice); db.flush(): the row gets its id, nothing is committed
Flush(p) ==
    /\ w[p].pc = "flush"
    /\ \A q \in Workers \ {p} : ~(w[q].pc = "commit" /\ w[q].number = w[p].number)
    /\ \E ok \in BOOLEAN :
        IF ok /\ \A i \in invoices : i.invoice_number # w[p].number
        THEN /\ nextId' = nextId + 1
             /\ w' = [w EXCEPT ![p].pc = "commit", ![p].inv_id = nextId,
                               ![p].created_at = now]
             /\ UNCHANGED <<seqLock, resp>>
        ELSE /\ Raise(p)
             /\ UNCHANGED nextId
    /\ UNCHANGED <<seq, invoices, line_items, audit, storeVars, envVars, now, started, creates, allocated>>

\* steps 9 and 10: line items, audit entry, db.commit()
Commit(p) ==
    /\ w[p].pc = "commit"
    /\ \E ok \in BOOLEAN :
        IF ok
        THEN /\ invoices' = invoices \cup {NewInvoice(w[p])}
             /\ line_items' = line_items \cup NewLineItems(w[p])
             /\ audit' = Append(audit, CreateAudit(w[p]))
             /\ Respond(p, 201)
             /\ UNCHANGED seqLock
        ELSE /\ Raise(p)
             /\ UNCHANGED <<invoices, line_items, audit>>
    /\ UNCHANGED <<seq, nextId, storeVars, envVars, now, started, creates, allocated>>

\* ------------------------------------------- DELETE /api/invoices/{id}
\* CancelRead without the check of the status
CancelReadNoStatusCheck(p, id, reason, u) ==
    /\ CanStart(p)
    /\ started' = started + 1
    /\ IF ById(id) = {}
       THEN Respond(p, 404)
       ELSE /\ w' = [w EXCEPT ![p] = [Idle EXCEPT !.pc = "cancel_commit", !.op = "cancel",
                                        !.target = id, !.reason = reason, !.user = u]]
            /\ UNCHANGED resp
    /\ UNCHANGED <<seq, seqLock, dbVars, storeVars, envVars, now, creates, allocated>>

\* the endpoint up to the call of the service: look the invoice up, check its status
CancelRead(p, id, reason, u) ==
    /\ CanStart(p)
    /\ started' = started + 1
    /\ IF ById(id) = {}
       THEN Respond(p, 404)
       ELSE IF Lookup(id).status = "cancelled"
       THEN Respond(p, 400)
       ELSE /\ w' = [w EXCEPT ![p] = [Idle EXCEPT !.pc = "cancel_commit", !.op = "cancel",
                                        !.target = id, !.reason = reason, !.user = u]]
            /\ UNCHANGED resp
    /\ UNCHANGED <<seq, seqLock, dbVars, storeVars, envVars, now, creates, allocated>>

\* CancelCommit deleting the row
CancelCommitDeletingRow(p) ==
    /\ w[p].pc = "cancel_commit"
    /\ \E ok \in BOOLEAN :
        IF ok
        THEN LET inv == Lookup(w[p].target)
             IN  /\ invoices' = invoices \ {inv}
                 /\ audit' = Append(audit, CancelAudit(w[p], inv))
                 /\ Respond(p, 200)
                 /\ UNCHANGED seqLock
        ELSE /\ Raise(p)
             /\ UNCHANGED <<invoices, audit>>
    /\ UNCHANGED <<seq, line_items, nextId, storeVars, envVars, now, started, creates, allocated>>

\* InvoiceService.cancel_invoice: set the status, add the audit entry, commit
CancelCommit(p) ==
    /\ w[p].pc = "cancel_commit"
    /\ \E ok \in BOOLEAN :
        IF ok
        THEN LET inv == Lookup(w[p].target)
             IN  /\ invoices' = (invoices \ {inv}) \cup {CancelledRow(inv, now)}
                 /\ audit' = Append(audit, CancelAudit(w[p], inv))
                 /\ Respond(p, 200)
                 /\ UNCHANGED seqLock
        ELSE /\ Raise(p)
             /\ UNCHANGED <<invoices, audit>>
    /\ UNCHANGED <<seq, line_items, nextId, storeVars, envVars, now, started, creates, allocated>>

\* ------------------------------- GET /api/invoices/{id}/preview, /download
Preview(p, id) ==
    /\ CanStart(p)
    /\ started' = started + 1
    /\ IF ById(id) # {} /\ GetFile(objects, Lookup(id).pdfa3_path) # NoVal
       THEN Respond(p, 200)
       ELSE Respond(p, 404)
    /\ UNCHANGED <<seq, seqLock, dbVars, storeVars, envVars, now, creates, allocated>>

Download(p, id) ==
    /\ CanStart(p)
    /\ started' = started + 1
    /\ IF ById(id) = {}
       THEN Respond(p, 404)
       ELSE IF \/ GetFile(objects, Lookup(id).pdfa3_path) = NoVal
               \/ GetFile(objects, Lookup(id).zugferd_xml_path) = NoVal
       THEN Respond(p, 500)
       ELSE Respond(p, 200)
    /\ UNCHANGED <<seq, seqLock, dbVars, storeVars, envVars, now, creates, allocated>>

\* the ids a request can name: every id handed out so far and one that is not
RequestIds == 1..nextId

Next ==
    \/ Tick
    \/ \E p \in Workers, d \in Drafts \cup InvalidDrafts, u \in UserIds : StartCreate(p, d, u)
    \/ \E p \in Workers, d \in Drafts \cup InvalidDrafts : RejectCreate(p, d)
    \/ \E p \in Workers : AllocRead(p)
    \/ \E p \in Workers : AllocInsert(p)
    \/ \E p \in Workers : AllocCommit(p)
    \/ \E p \in Workers : Compute(p)
    \/ \E p \in Workers : Encode(p)
    \/ \E p \in Workers : Compose(p)
    \/ \E p \in Workers : Sign(p)
    \/ \E p \in Workers : Hash(p)
    \/ \E p \in Workers : StorePdf(p)
    \/ \E p \in Workers : StoreXml(p)
    \/ \E p \in Workers : Flush(p)
    \/ \E p \in Workers : Commit(p)
    \/ \E p \in Workers, id \in RequestIds, r \in Reasons, u \in UserIds :
            CancelRead(p, id, r, u)
    \/ \E p \in Workers : CancelCommit(p)
    \/ \E p \in Workers, id \in RequestIds : Preview(p, id)
    \/ \E p \in Workers, id \in RequestIds : Download(p, id)

Spec == Init /\ [][Next]_vars

\* -------------------------------- _generate_invoice_number called directly
\* a caller enters _generate_invoice_number
AllocCall(p) ==
    /\ CanStart(p)
    /\ started' = started + 1
    /\ w' = [w EXCEPT ![p] = [Idle EXCEPT !.pc = "alloc", !.op = "allocate"]]
    /\ UNCHANGED <<seq, seqLock, dbVars, storeVars, envVars, now, creates, resp, allocated>>

\* return invoice_number: the caller has its number
AllocReturn(p) ==
    /\ w[p].pc = "compute"
    /\ w[p].op = "allocate"
    /\ w' = [w EXCEPT ![p] = Idle]
    /\ UNCHANGED <<seq, seqLock, dbVars, storeVars, envVars, now, started, creates, resp,
                   allocated>>

NextAlloc ==
    \/ \E p \in Workers : AllocCall(p)
    \/ \E p \in Workers : AllocRead(p)
    \/ \E p \in Workers : AllocInsert(p)
    \/ \E p \in Workers : AllocCommit(p)
    \/ \E p \in Workers : AllocReturn(p)

SpecAlloc == Init /\ [][NextAlloc]_vars

\* ----------------------------------------- one issuance of any sample draft
MaxLines == 2

\* line items whose amounts round() treats as the exact arithmetic does
LineSamples ==
    {[quantity |-> 3, unit_price |-> 10005, tax_rate |-> 19],
     [quantity |-> 1, unit_price |-> 125, tax_rate |-> 19],
     [quantity |-> 3, unit_price |-> 125, tax_rate |-> 7],
     [quantity |-> 2, unit_price |-> 50000, tax_rate |-> 19],
     [quantity |-> 1, unit_price |-> 10050, tax_rate |-> 7],
     [quantity |-> 3, unit_price |-> 3330, tax_rate |-> 19],
     [quantity |-> 1, unit_price |-> 125, tax_rate |-> 0],
     [quantity |-> 2, unit_price |-> 125, tax_rate |-> 19]}

TotalsDrafts ==
    {[DraftA EXCEPT !.line_items = ls] :
        ls \in UNION {[1..n -> LineSamples] : n \in 1..MaxLines}}

\* create_invoice has its number and is about to compute the totals of its draft
InitTotals ==
    /\ seq = [current_number |-> SeqBase + 1]
    /\ seqLock = 0
    /\ invoices = {}
    /\ line_items = {}
    /\ audit = <<>>
    /\ nextId = 1
    /\ objects = {}
    /\ contacts = {}
    /\ local_files = {}
    /\ use_local \in BOOLEAN
    /\ versioning = ~use_local
    /\ procs = 1
    /\ now = 0
    /\ started = 1
    /\ creates = 1
    /\ resp = 0
    /\ allocated = <<FormatNumber(SeqBase)>>
    /\ \E d \in TotalsDrafts :
        w = [p \in Workers |->
                IF p = 1
                THEN [Idle EXCEPT !.pc = "compute", !.op = "create", !.draft = d,
                                  !.user = 1, !.number = FormatNumber(SeqBase)]
                ELSE Idle]

NextTotals ==
    \/ Tick
    \/ \E p \in Workers : Compute(p)
    \/ \E p \in Workers : Encode(p)
    \/ \E p \in Workers : Compose(p)
    \/ \E p \in Workers : Sign(p)
    \/ \E p \in Workers : Hash(p)
    \/ \E p \in Workers : StorePdf(p)
    \/ \E p \in Workers : StoreXml(p)
    \/ \E p \in Workers : Flush(p)
    \/ \E p \in Workers : Commit(p)

SpecTotals == InitTotals /\ [][NextTotals]_vars

\* ------------------------------------------- StorageService called directly
\* the service as constructed: local fallback, or a bucket that keeps versions (the
\* service created it) or does not (it was there before)
InitStore ==
    /\ seq = NoVal
    /\ seqLock = 0
    /\ invoices = {}
    /\ line_items = {}
    /\ audit = <<>>
    /\ nextId = 1
    /\ objects = {}
    /\ contacts = {}
    /\ local_files = {}
    /\ use_local \in BOOLEAN
    /\ versioning \in IF use_local THEN {FALSE} ELSE BOOLEAN
    /\ procs = 1
    /\ now = 0
    /\ started = 0
    /\ creates = 0
    /\ resp = 0
    /\ allocated = <<>>
    /\ w = [p \in Workers |-> Idle]

StoreNumbers == {FormatNumber(SeqBase)}
StoreBodies == {[doc |-> "a"], [doc |-> "b"]}
StoreKeys == {StorageKey(now, n, e) : n \in StoreNumbers, e \in {"pdf", "xml"}}

notStore == <<seq, seqLock, dbVars, use_local, versioning, procs, contacts, now, started, creates,
              resp, allocated, w>>

\* store_pdf(pdf_bytes, invoice_number)
StorePdfCall(n, body) ==
    LET key == StorageKey(now, n, "pdf")
    IN  /\ Len(OfKey(objects, key)) < MaxVersions
        /\ objects' = PutObject(objects, use_local, versioning, key, body)
        /\ local_files' = PutObject(local_files, TRUE, FALSE, key, body)
        /\ UNCHANGED notStore

\* store_xml(xml_content, invoice_number)
StoreXmlCall(n, body) ==
    LET key == StorageKey(now, n, "xml")
    IN  /\ Len(OfKey(objects, key)) < MaxVersions
        /\ objects' = PutObject(objects, use_local, versioning, key, body)
        /\ local_files' = PutObject(local_files, TRUE, FALSE, key, body)
        /\ UNCHANGED notStore

\* delete_object(key)
DeleteObjectCall(key) ==
    /\ Len(OfKey(objects, key)) < MaxVersions
    /\ objects' = DeleteObject(objects, use_local, versioning, key)
    /\ local_files' = DeleteObject(local_files, TRUE, FALSE, key)
    /\ UNCHANGED notStore

NextStore ==
    \/ \E n \in StoreNumbers, b \in StoreBodies : StorePdfCall(n, b)
    \/ \E n \in StoreNumbers, b \in StoreBodies : StoreXmlCall(n, b)
    \/ \E k \in StoreKeys : DeleteObjectCall(k)

SpecStore == InitStore /\ [][NextStore]_vars

\* --------------------------------------------------- /api/contacts endpoints
MaxContacts == 1

\* the body of POST /api/contacts: the buyer of the draft, kept as a contact
ContactA == [company_name |-> DraftA.buyer.name, tax_id |-> DraftA.buyer.tax_id,
             is_active |-> TRUE]
\* bodies of PUT /api/contacts/{id}: the fields that were set
ContactUpdates == {[company_name |-> "Kunde A (neu)"], [tax_id |-> "DE000"]}
ContactIds == 1..MaxContacts

ContactById(id) == {c \in contacts : c.id = id}

\* for field, value in update_data.items(): setattr(contact, field, value)
SetFields(c, data) == [f \in DOMAIN c |-> IF f \in DOMAIN data THEN data[f] ELSE c[f]]

notContacts == <<seq, seqLock, dbVars, storeVars, procs, local_files, now, creates,
                 allocated>>

\* create_contact: add the row, commit, answer 201
CreateContact(p, data) ==
    /\ CanStart(p)
    /\ Cardinality(contacts) < MaxContacts
    /\ started' = started + 1
    /\ contacts' = contacts \cup {[id |-> Cardinality(contacts) + 1] @@ data}
    /\ Respond(p, 201)
    /\ UNCHANGED notContacts

\* UpdateContact that also writes the new fields into the invoices of that buyer
UpdateContactRewritingInvoices(p, id, data) ==
    /\ CanStart(p)
    /\ started' = started + 1
    /\ IF ContactById(id) = {}
       THEN /\ Respond(p, 404)
            /\ UNCHANGED <<contacts, invoices>>
       ELSE LET c == CHOOSE x \in contacts : x.id = id
                d == SetFields(c, data)
            IN  /\ contacts' = (contacts \ {c}) \cup {d}
                /\ invoices' = {IF i.buyer.tax_id = c.tax_id
                                THEN [i EXCEPT !.buyer = [name |-> d.company_name,
                                                          tax_id |-> d.tax_id]]
                                ELSE i : i \in invoices}
                /\ Respond(p, 200)
    /\ UNCHANGED <<seq, seqLock, line_items, audit, nextId, storeVars, procs, local_files,
                   now, creates, allocated>>

\* update_contact: 404 without the row, else set the given fields, commit, answer 200
UpdateContact(p, id, data) ==
    /\ CanStart(p)
    /\ started' = started + 1
    /\ IF ContactById(id) = {}
       THEN /\ Respond(p, 404)
            /\ UNCHANGED contacts
       ELSE LET c == CHOOSE x \in contacts : x.id = id
            IN  /\ contacts' = (contacts \ {c}) \cup {SetFields(c, data)}
                /\ Respond(p, 200)
    /\ UNCHANGED notContacts

\* delete_contact: 404 without the row, else is_active = False, commit, answer 204
DeleteContact(p, id) ==
    /\ CanStart(p)
    /\ started' = started + 1
    /\ IF ContactById(id) = {}
       THEN /\ Respond(p, 404)
            /\ UNCHANGED contacts
       ELSE LET c == CHOOSE x \in contacts : x.id = id
            IN  /\ contacts' = (contacts \ {c}) \cup {[c EXCEPT !.is_active = FALSE]}
                /\ Respond(p, 204)
    /\ UNCHANGED notContacts

\* one server process serving the invoice and the contact endpoints
InitContacts ==
    /\ Init
    /\ procs = 1

NextContacts ==
    \/ Next
    \/ \E p \in Workers : CreateContact(p, ContactA)
    \/ \E p \in Workers, id \in ContactIds, data \in ContactUpdates : UpdateContact(p, id, data)
    \/ \E p \in Workers, id \in ContactIds : DeleteContact(p, id)

SpecContacts == InitContacts /\ [][NextContacts]_vars

\* ------------------------- issuance into a table that holds the next number
\* what the issuance of the invoice numbered INVOICE_NUMBER_START held at its commit
ExistingLocals ==
    LET n == FormatNumber(INVOICE_NUMBER_START)
        t == ComputeTotals(DraftA)
        x == ZugferdGenerate(n, DraftA, t)
        r == AddTimestamp(PdfGenerate(n, DraftA, t, x), "stamped", 0)
    IN  [Idle EXCEPT !.number = n, !.draft = DraftA, !.user = 1, !.totals = t, !.xml = x,
                     !.pdf = PdfGenerate(n, DraftA, t, x), !.signed = r.signed,
                     !.token = r.token, !.pdf_hash = Sha256(r.signed),
                     !.pdf_path = StorageKey(0, n, "pdf"),
                     !.xml_path = StorageKey(0, n, "xml"), !.inv_id = 1]

\* a database whose invoices table holds the invoice numbered INVOICE_NUMBER_START
\* with its line items, audit entry and documents, and whose sequence table has no
\* row for the prefix, so that the allocator starts at INVOICE_NUMBER_START again
InitCollide ==
    /\ seq = NoVal
    /\ seqLock = 0
    /\ invoices = {NewInvoice(ExistingLocals)}
    /\ line_items = NewLineItems(ExistingLocals)
    /\ audit = <<CreateAudit(ExistingLocals)>>
    /\ nextId = 2
    /\ use_local \in BOOLEAN
    /\ versioning = ~use_local
    /\ objects = PutObject(PutObject({}, use_local, versioning, ExistingLocals.pdf_path,
                                     ExistingLocals.signed),
                           use_local, versioning, ExistingLocals.xml_path, ExistingLocals.xml)
    /\ contacts = {}
    /\ local_files = {}
    /\ procs \in 1..NumWorkers
    /\ now = 0
    /\ started = 0
    /\ creates = 0
    /\ resp = 0
    /\ allocated = <<>>
    /\ w = [p \in Workers |-> Idle]

SpecCollide == InitCollide /\ [][Next]_vars

\* -------------------------------------------------------------- properties
Range(f) == {f[i] : i \in DOMAIN f}
Busy(p) == w[p].pc # "idle"

\* C1: with the prefix's sequence row present from the start at current_number = base,
\* the numbers handed out by any interleaving of N allocations are exactly
\* base, base+1, ..., base+N-1: no duplicate, no gap.
C1_ContiguousNumbers ==
    (seq # NoVal /\ seq.current_number >= SeqBase) =>
        LET n == Len(allocated)
        IN  /\ seq.current_number = SeqBase + n
            /\ Range(allocated) = {FormatNumber(SeqBase + k) : k \in 0..(n - 1)}
            /\ Cardinality(Range(allocated)) = n

\* two allocations were made while both issuances were under way
C1_Witness ==
    /\ seq # NoVal /\ seq.current_number = SeqBase + 2
    /\ Len(allocated) = 2
    /\ \A p \in Workers : Busy(p) /\ w[p].number # NoVal

\* C2: a number handed out is never handed out again, whatever became of the
\* issuance it was handed to: the handed-out numbers are pairwise different and
\* the number the allocator would hand out next is none of them.
C2_NoReuse ==
    /\ \A i, j \in DOMAIN allocated : i # j => allocated[i] # allocated[j]
    /\ seq # NoVal => FormatNumber(seq.current_number) \notin Range(allocated)
    /\ \A p \in Workers : w[p].number # NoVal => w[p].number \in Range(allocated)
    /\ \A i \in invoices : i.invoice_number \in Range(allocated)

\* an issuance failed after its allocation and a later issuance was completed
C2_Witness ==
    /\ Len(allocated) = 2
    /\ Cardinality(invoices) = 1
    /\ \E i \in invoices : i.invoice_number = allocated[2]
    /\ \A p \in Workers : ~Busy(p)

\* C3: the bytes the archival store returns for a persisted invoice's pdfa3_path
\* have the digest stored in its pdf_hash, in every reachable state.
C3_HashIntegrity ==
    \A i \in invoices :
        /\ GetFile(objects, i.pdfa3_path) # NoVal
        /\ Sha256(GetFile(objects, i.pdfa3_path)) = i.pdf_hash

\* a stamped invoice was issued and cancelled while another issuance had stored its PDF
C3_Witness ==
    /\ \E i \in invoices : i.status = "cancelled" /\ ~HasMarker(i.tsa_token)
    /\ \E p \in Workers : w[p].pc = "store_xml"

\* the stored documents of invoice i are the same before and after the step
DocumentsKept(i) ==
    /\ GetFile(objects', i.pdfa3_path) = GetFile(objects, i.pdfa3_path)
    /\ GetFile(objects', i.zugferd_xml_path) = GetFile(objects, i.zugferd_xml_path)

CreateEntries(id) ==
    {k \in DOMAIN audit : audit[k].action = "create" /\ audit[k].entity_id = id}

LinesOf(id) == {l \in line_items : l.invoice_id = id}

\* C5: in every committed state an invoice row exists iff a 'create' audit entry for
\* its id exists, and its line items are there with it: the three become durable in
\* one commit or not at all.
C5_InvoiceIffCreateEntry ==
    /\ \A i \in invoices : Cardinality(CreateEntries(i.id)) = 1 /\ LinesOf(i.id) # {}
    /\ \A k \in DOMAIN audit : audit[k].action = "create" => ById(audit[k].entity_id) # {}
    /\ \A l \in line_items : ById(l.invoice_id) # {}

\* one issuance was committed, another got its row flushed and was rolled back
C5_Witness ==
    /\ Cardinality(invoices) = 1
    /\ nextId = 3
    /\ \A p \in Workers : ~Busy(p)

Populated(i) ==
    /\ i.invoice_number # NoVal
    /\ i.seller # NoVal /\ i.seller.name # ""
    /\ i.buyer # NoVal /\ i.buyer.name # ""
    /\ i.net_total \in Nat /\ i.tax_total \in Nat /\ i.gross_total \in Nat
    /\ i.pdfa3_path # NoVal /\ i.zugferd_xml_path # NoVal
    /\ i.pdf_hash # NoVal /\ i.tsa_token # NoVal
    /\ i.status \in {"issued", "cancelled"}
    /\ i.is_immutable = TRUE

\* C6: every invoice row of a committed state has its number, party snapshots, three
\* totals, both paths, hash and token populated, status issued or cancelled, and
\* is_immutable true, whatever step of whatever issuance failed.
C6_NoPartialRecord == \A i \in invoices : Populated(i)

\* an issuance failed with its documents stored while another one is committed
C6_Witness ==
    /\ invoices # {}
    /\ resp = 500
    /\ \E k \in objects : \A i \in invoices : k.key.number # i.invoice_number

AfterSign == {"hash", "store_pdf", "store_xml", "flush", "commit"}

\* C7: the signing step of an issuance never ends the issuance; when the authority
\* call failed it hands on the unmodified bytes with a fallback token, the issuance
\* carries both through the later steps, and what it commits is an issued invoice.
C7_FallbackContinues ==
    /\ [][\A p \in Workers :
            (w[p].pc = "sign" /\ w'[p] # w[p]) =>
                /\ w'[p].pc = "hash" /\ resp' = resp
                /\ w'[p].tsa = "authority_failed" =>
                      w'[p].signed = w[p].pdf /\ HasMarker(w'[p].token)]_vars
    /\ [](\A p \in Workers :
            (w[p].pc \in AfterSign /\ HasMarker(w[p].token)) => w[p].signed = w[p].pdf)
    /\ [][\A p \in Workers :
            (w[p].pc = "commit" /\ HasMarker(w[p].token) /\ resp' = 201 /\ w'[p] # w[p]) =>
                \E i \in invoices' \ invoices :
                    i.status = "issued" /\ i.tsa_token = w[p].token]_vars

\* an issuance whose authority call failed was committed as an issued invoice
C7_Witness ==
    /\ resp = 201
    /\ \E i \in invoices : i.status = "issued" /\ HasMarker(i.tsa_token)

\* C8 as stated: the token of an issuance carries the marker iff its authority call
\* failed, and the persisted tsa_token is the token the signing step returned.
C8_MarkerIffAuthorityFailed ==
    \A p \in Workers :
        w[p].pc = "hash" => (HasMarker(w[p].token) <=> w[p].tsa = "authority_failed")

CancelEntries(id) ==
    {k \in DOMAIN audit : audit[k].action = "cancel" /\ audit[k].entity_id = id}

\* C9: a cancellation request that finds the invoice cancelled is answered 400 and
\* changes neither the invoice nor the audit log nor anything else; requests handled
\* one after the other therefore leave exactly one 'cancel' entry per cancelled invoice.
C9_SecondCancelRejected ==
    /\ [][\A p \in Workers, id \in RequestIds, r \in Reasons, u \in UserIds :
            (CancelRead(p, id, r, u) /\ ById(id) # {} /\ Lookup(id).status = "cancelled") =>
                /\ resp' = 400
                /\ w'[p] = Idle
                /\ UNCHANGED <<invoices, line_items, audit, objects, seq>>]_vars
    /\ [][\A i \in invoices, p \in Workers :
            (i.status = "cancelled" /\ w[p].pc # "cancel_commit") =>
                ~(w'[p].pc = "cancel_commit" /\ w'[p].target = i.id)]_vars
    /\ [](procs = 1 =>
            \A i \in invoices :
                Cardinality(CancelEntries(i.id)) = IF i.status = "cancelled" THEN 1 ELSE 0)

\* the same invoice was cancelled and then asked to be cancelled again
C9_Witness ==
    /\ procs = 1
    /\ resp = 400
    /\ \E i \in invoices : i.status = "cancelled" /\ Cardinality(CancelEntries(i.id)) = 1

\* what list_versions lets a caller retrieve of a key
Retrievable(objs, local, key) ==
    LET r == ListVersions(objs, local, key)
    IN  IF "versions" \in DOMAIN r THEN r.versions ELSE <<>>

\* C10 as stated: in either backend no store_pdf, store_xml or delete_object call
\* lowers the number of versions of a key that list_versions returns or drops one of
\* them; a write to an existing key adds a version, a delete adds a marker.
C10_VersionsNeverDecrease ==
    [][\A k \in StoreKeys :
        LET before == Retrievable(objects, use_local, k)
            after == Retrievable(objects', use_local, k)
        IN  /\ Len(after) >= Len(before)
            /\ SubSeq(after, 1, Len(before)) = before
            /\ (GetFile(objects, k) # NoVal /\ GetFile(objects', k) # NoVal
                    /\ OfKey(objects', k) # OfKey(objects, k)) =>
                  Len(after) = Len(before) + 1
            /\ (GetFile(objects, k) # NoVal /\ GetFile(objects', k) = NoVal) =>
                  OfKey(objects', k) =
                      Append(OfKey(objects, k), [body |-> NoVal, kind |-> "marker"])]_vars

\* the steps of an issuance that have a stored document behind them
AfterStorePdf == {"store_xml", "flush", "commit"}

\* C11: when the second storage write, the flush or the commit of an issuance fails,
\* the store is left as it was (the documents written stay, nothing is deleted),
\* no invoice, line item or audit row of the attempt exists, and the caller gets 500.
C11_OrphansStay ==
    /\ [][\A p \in Workers :
            (w[p].pc \in AfterStorePdf /\ w'[p].pc = "idle" /\ resp' # 201) =>
                /\ resp' = 500
                /\ objects' = objects
                /\ GetFile(objects', w[p].pdf_path) = w[p].signed
                /\ UNCHANGED <<invoices, line_items, audit>>
                /\ \A i \in invoices' : i.invoice_number # w[p].number]_vars
    /\ [](\A o \in objects :
            (\A i \in invoices : i.invoice_number # o.key.number) =>
                \A k \in DOMAIN audit :
                    audit[k].details.invoice_number # o.key.number)

\* an issuance failed with both of its documents stored; they are still there
C11_Witness ==
    /\ resp = 500
    /\ \A p \in Workers : ~Busy(p)
    /\ invoices = {}
    /\ \E a, b \in objects :
        /\ a.key.number = b.key.number
        /\ a.key.ext = "pdf" /\ b.key.ext = "xml"

\* the field constraints C12 lists, read off a draft
LinesAcceptable(d) ==
    /\ d.line_items # <<>>
    /\ \A i \in DOMAIN d.line_items :
        LET l == d.line_items[i]
        IN  l.quantity > 0 /\ l.unit_price >= 0 /\ l.tax_rate >= 0 /\ l.tax_rate <= 100

\* C12: a draft with a line of quantity <= 0, unit price < 0 or tax rate outside
\* [0,100], or with no line at all, never reaches the allocator: no issuance ever
\* runs on such a draft, and the request that carried it is answered 422 with the
\* sequence row, the store, the invoices, the line items and the audit log unchanged.
C12_RejectedBeforeAllocation ==
    /\ [](\A p \in Workers : w[p].op = "create" => LinesAcceptable(w[p].draft))
    /\ [][\A p \in Workers, d \in InvalidDrafts :
            RejectCreate(p, d) =>
                /\ ~LinesAcceptable(d)
                /\ resp' = 422
                /\ UNCHANGED <<seq, seqLock, objects, invoices, line_items, audit,
                               nextId, allocated, w>>]_vars
    /\ [][(resp' = 422 /\ started' # started) =>
                UNCHANGED <<seq, seqLock, objects, invoices, line_items, audit,
                            nextId, allocated>>]_vars

\* an invalid draft was rejected after an invoice had been issued
C12_Witness ==
    /\ resp = 422
    /\ Cardinality(invoices) = 1
    /\ Len(allocated) = 1

\* the steps of an issuance that follow the hand-over of the structured bytes to the composer
AfterCompose == {"sign", "hash", "store_pdf", "store_xml", "flush", "commit"}

\* C13 as stated: in every issuance the structured bytes reach the composer and the
\* store only after ZUGFeRDGenerator.validate has accepted them (validated is what a
\* call of validate in the run would set).
C13_ValidatedBeforeUse ==
    \A p \in Workers :
        (w[p].op = "create" /\ w[p].pc \in AfterCompose) =>
            w[p].validated /\ Validate(w[p].xml)

\* the steps of _generate_invoice_number
InAllocation == {"alloc", "alloc_insert", "alloc_commit"}

\* C14: when the flush or the commit of the sequence row fails during allocation,
\* the issuance ends with 500 and nothing is left of it: the committed sequence row
\* is as before (the number is not consumed), the row lock is free again, and the
\* store, the invoices, the line items and the audit log are unchanged.
C14_FailedAllocationRollsBack ==
    /\ [][\A p \in Workers :
            (w[p].pc \in InAllocation /\ w'[p].pc = "idle") =>
                /\ resp' = 500
                /\ seq' = seq
                /\ seqLock' # p
                /\ UNCHANGED <<allocated, objects, invoices, line_items, audit, nextId>>]_vars
    /\ [](\A p \in Workers :
            w[p].pc \in InAllocation =>
                /\ w[p].number = NoVal
                /\ \A o \in objects : o.key.number \in Range(allocated))

\* an allocation failed at its commit and the next one got the number it had read
C14_Witness ==
    /\ started = 2
    /\ Len(allocated) = 1
    /\ seq # NoVal /\ seq.current_number = SeqBase + 1
    /\ allocated[1] = FormatNumber(SeqBase)
    /\ resp = 500
    /\ \E p \in Workers : w[p].pc = "compute"

\* the composed document inside the signed bytes
PdfOf(signed) == IF "stamped" \in DOMAIN signed THEN signed.stamped ELSE signed

\* the three totals strings of a structured or visual document
TotalsOf(doc) == <<doc.net_total, doc.tax_total, doc.gross_total>>

\* C15: the net, tax and grand total strings of the structured document, those of
\* the visual document, and the totals of the invoice row rendered to two decimals
\* are the same, for the documents an issuance holds and for those it has stored.
C15_TotalsAgree ==
    /\ \A p \in Workers :
        (w[p].op = "create" /\ w[p].pc \in AfterCompose) =>
            /\ TotalsOf(w[p].xml) = TotalsOf(w[p].pdf)
            /\ TotalsOf(w[p].xml) = <<Fmt2(NewInvoice(w[p]).net_total),
                                      Fmt2(NewInvoice(w[p]).tax_total),
                                      Fmt2(NewInvoice(w[p]).gross_total)>>
    /\ \A i \in invoices :
        LET rendered == <<Fmt2(i.net_total), Fmt2(i.tax_total), Fmt2(i.gross_total)>>
        IN  /\ TotalsOf(GetFile(objects, i.zugferd_xml_path)) = rendered
            /\ TotalsOf(PdfOf(GetFile(objects, i.pdfa3_path))) = rendered
            /\ TotalsOf(PdfOf(GetFile(objects, i.pdfa3_path)).embedded) = rendered

\* an invoice of two lines with tax was committed
C15_Witness ==
    \E i \in invoices :
        /\ Cardinality(LinesOf(i.id)) = 2
        /\ i.tax_total > 0
        /\ i.gross_total = i.net_total + i.tax_total

\* num/den cents rounded to the nearest cent, halves up
HalfUp(num, den) == (2 * num + den) \div (2 * den)

\* C16 as stated: every line's net is quantity x unit price rounded half-up to two
\* digits, its tax the net x rate / 100 rounded half-up, its gross their sum; the
\* line 3 x 10.005 at 19 % has net 30.02, tax 5.70 and gross 35.72.
C16_HalfUpAtLineLevel ==
    \A p \in Workers :
        w[p].totals # NoVal =>
            \A k \in DOMAIN w[p].totals.line_items :
                LET item == w[p].draft.line_items[k]
                    line == w[p].totals.line_items[k]
                IN  /\ line.line_net = HalfUp(item.quantity * item.unit_price, 10)
                    /\ line.tax_amount = HalfUp(line.line_net * item.tax_rate, 100)
                    /\ line.line_gross = line.line_net + line.tax_amount
                    /\ (item = [quantity |-> 3, unit_price |-> 10005, tax_rate |-> 19]) =>
                          /\ line.line_net = 3002
                          /\ line.tax_amount = 570
                          /\ line.line_gross = 3572

\* C17 as stated: after every sequence of store_pdf, store_xml and delete_object calls
\* the configured backend and a local storage directory given the same calls answer
\* get_file and list_versions alike for every key: the same bytes, the same
\* not-found outcome, the same version history (stated for the keys written so far).
C17_BackendsAgree ==
    \A k \in StoreKeys :
        OfKey(local_files, k) # <<>> =>
            /\ GetFile(objects, k) = GetFile(local_files, k)
            /\ ListVersions(objects, use_local, k) = ListVersions(local_files, TRUE, k)

\* C18: a step that creates, updates or deactivates a contact leaves every invoice
\* record, every line item and the stored documents of every invoice as they were;
\* an invoice keeps the seller and buyer data of its draft.
C18_ContactsLeaveInvoices ==
    [][contacts' # contacts =>
            /\ invoices' = invoices
            /\ line_items' = line_items
            /\ \A i \in invoices : DocumentsKept(i)]_vars

\* the buyer's contact was renamed by the request after the invoice was issued
C18_Witness ==
    /\ started = 3
    /\ resp = 200
    /\ \E i \in invoices, c \in contacts :
        /\ i.status = "issued"
        /\ c.tax_id = i.buyer.tax_id
        /\ c.company_name # i.buyer.name
        /\ i.buyer = DraftA.buyer

Ids(rows) == {i.id : i \in rows}

\* C19: no step changes or removes an audit entry; the step that commits an issuance
\* appends exactly one 'create' entry for the new invoice, the step that commits a
\* cancellation appends exactly one 'cancel' entry with the request's reason and
\* user, and no other step appends anything.
C19_AuditAppendOnly ==
    [][/\ Len(audit') >= Len(audit)
       /\ SubSeq(audit', 1, Len(audit)) = audit
       /\ \A i \in invoices' :
            i.id \notin Ids(invoices) =>
                /\ Len(audit') = Len(audit) + 1
                /\ audit'[Len(audit')].action = "create"
                /\ audit'[Len(audit')].entity_id = i.id
                /\ audit'[Len(audit')].user_id = i.created_by
       /\ \A p \in Workers :
            (w[p].pc = "cancel_commit" /\ w'[p].pc = "idle" /\ resp' = 200) =>
                /\ Len(audit') = Len(audit) + 1
                /\ audit'[Len(audit')].action = "cancel"
                /\ audit'[Len(audit')].entity_id = w[p].target
                /\ audit'[Len(audit')].details.reason = w[p].reason
                /\ audit'[Len(audit')].user_id = w[p].user
       /\ Len(audit') > Len(audit) =>
            \E p \in Workers :
                /\ w[p].pc \in {"commit", "cancel_commit"}
                /\ w'[p].pc = "idle"
                /\ resp' \in {200, 201}]_vars

\* an invoice was issued and then cancelled: the log holds its two entries in order
C19_Witness ==
    /\ Len(audit) = 2
    /\ audit[1].action = "create"
    /\ audit[2].action = "cancel"
    /\ audit[2].entity_id = audit[1].entity_id
    /\ audit[2].details.reason \in Reasons

\* C20: no step removes an invoice record, and every record's status is 'issued'
\* or 'cancelled' after every step.
C20_NoPhysicalDeletion ==
    [][/\ Ids(invoices) \subseteq Ids(invoices')
       /\ \A i \in invoices' : i.status \in {"issued", "cancelled"}]_vars

\* of two issued invoices one was cancelled through the DELETE endpoint; both are kept
C20_Witness ==
    /\ Cardinality(Ids(invoices)) = 2
    /\ \E i \in invoices : i.status = "cancelled"
    /\ \E i \in invoices : i.status = "issued"
    /\ started = 3
    /\ \A p \in Workers : ~Busy(p)

\* C21 as stated: the token sign_pdf returns, whichever way the attempt went, names
\* the authority endpoint the attempt used and the digest algorithm, and carries the
\* digest of the input document, the digest of the returned document and the time
\* of the attempt.
C21_TokenComplete ==
    \A p \in Workers :
        w[p].pc = "hash" =>
            /\ w[p].token.tsa_url = TSA_URL
            /\ w[p].token.hash_algorithm = TSA_HASH_ALGORITHM
            /\ w[p].token.pdf_hash = Sha256(w[p].pdf)
            /\ w[p].token.signed_pdf_hash = Sha256(w[p].signed)
            /\ w[p].token.timestamp = now

\* the SpecifiedTaxRegistration element of the buyer party, NoVal when it is left out
BuyerTaxRegistration(xml) ==
    IF xml.buyer.tax_id # "" THEN [ID |-> xml.buyer.tax_id, schemeID |-> "VA"] ELSE NoVal

\* C22 as stated: the structured document of an issuance holds the delivery event
\* when its draft has a delivery date, the payment-terms text when its draft has
\* payment terms, and the buyer's tax registration exactly when the buyer has a tax id.
C22_OptionalElements ==
    \A p \in Workers :
        (w[p].op = "create" /\ w[p].pc \in AfterCompose \cup {"compose"}) =>
            /\ w[p].draft.delivery_date_start # "" =>
                    w[p].xml.delivery = w[p].draft.delivery_date_start
            /\ w[p].draft.payment_terms # "" =>
                    w[p].xml.payment_terms = w[p].draft.payment_terms
            /\ BuyerTaxRegistration(w[p].xml) # NoVal <=> w[p].draft.buyer.tax_id # ""

\* C23 as stated: starting without a sequence row, the concurrent first callers leave
\* one row that started at INVOICE_NUMBER_START, the numbers handed out count up from
\* it without a duplicate, and no caller's call ends at the insert of the row because
\* another caller has inserted it first.
C23_FirstAllocations ==
    /\ [](seq # NoVal /\ seq.current_number < SeqBase =>
            LET n == Len(allocated)
            IN  /\ seq.current_number = INVOICE_NUMBER_START + n
                /\ Range(allocated) = {FormatNumber(INVOICE_NUMBER_START + k) : k \in 0..(n - 1)}
                /\ Cardinality(Range(allocated)) = n)
    /\ [][\A p \in Workers : w[p].pc = "alloc_insert" => w'[p].pc # "idle"]_vars

\* the steps of create_invoice in the order of its code
IssuanceSteps == <<"alloc", "alloc_insert", "alloc_commit", "compute", "encode", "compose",
                   "sign", "hash", "store_pdf", "store_xml", "flush", "commit">>
Pos(pc) == CHOOSE k \in DOMAIN IssuanceSteps : IssuanceSteps[k] = pc

\* the issuance of worker p has the step behind it
Past(p, step) == Pos(w[p].pc) > Pos(step)

\* C24: an issuance moves from each step to the next one of the fixed order only
\* (number, totals, structured document, visual document with the structured bytes
\* embedded, proof, hash of the bytes after the proof, the two store calls, metadata,
\* audit entry with the commit); it holds the result of a step exactly when that
\* step is behind it; and a run that ends anywhere but at its commit ends with 500.
C24_FixedOrder ==
    /\ [][\A p \in Workers :
            (w[p].op = "create" /\ w'[p].pc # w[p].pc) =>
                \/ /\ w'[p].pc # "idle"
                   /\ \/ Pos(w'[p].pc) = Pos(w[p].pc) + 1
                      \/ w[p].pc = "alloc" /\ w'[p].pc = "alloc_commit"
                \/ w'[p].pc = "idle" /\ resp' = 500
                \/ w'[p].pc = "idle" /\ resp' = 201 /\ w[p].pc = "commit"]_vars
    /\ [](\A p \in Workers :
            w[p].op = "create" =>
                /\ w[p].number # NoVal <=> Past(p, "alloc_commit")
                /\ w[p].totals # NoVal <=> Past(p, "compute")
                /\ w[p].xml # NoVal <=> Past(p, "encode")
                /\ w[p].pdf # NoVal <=> Past(p, "compose")
                /\ w[p].signed # NoVal <=> Past(p, "sign")
                /\ w[p].pdf_hash # NoVal <=> Past(p, "hash")
                /\ w[p].pdf_path # NoVal <=> Past(p, "store_pdf")
                /\ w[p].xml_path # NoVal <=> Past(p, "store_xml")
                /\ w[p].inv_id # 0 <=> Past(p, "flush")
                /\ Past(p, "encode") =>
                        w[p].xml = ZugferdGenerate(w[p].number, w[p].draft, w[p].totals)
                /\ Past(p, "compose") => w[p].pdf.embedded = w[p].xml
                /\ Past(p, "hash") => w[p].pdf_hash = Sha256(w[p].signed))

\* one issuance went through every step and was committed, a later one got its
\* number and was ended by a failing step before it had stored anything
C24_Witness ==
    /\ resp = 500
    /\ creates = 2
    /\ Cardinality(invoices) = 1
    /\ Len(audit) = 1
    /\ Cardinality(objects) = 2
    /\ Len(allocated) = 2
    /\ \A p \in Workers : ~Busy(p)

\* a document was written under the key and get_file returns it
Written(key) == key # NoVal /\ OfKey(objects, key) # <<>> /\ GetFile(objects, key) # NoVal

\* C25: an issuance that is at or past the step adding the invoice row has both its
\* documents in the store, under the paths it will persist; every committed invoice
\* row names two paths that were written.
C25_StoredBeforePersisted ==
    /\ \A p \in Workers :
        (w[p].op = "create" /\ w[p].pc \in {"flush", "commit"}) =>
            /\ Written(w[p].pdf_path) /\ Written(w[p].xml_path)
            /\ GetFile(objects, w[p].xml_path) = w[p].xml
    /\ \A i \in invoices : Written(i.pdfa3_path) /\ Written(i.zugferd_xml_path)

\* one invoice is committed and a second issuance has stored both documents and is
\* about to add its row
C25_Witness ==
    /\ Cardinality(invoices) = 1
    /\ Cardinality(objects) = 4
    /\ \E p \in Workers : w[p].pc = "flush"

\* the steps of create_invoice that follow _generate_invoice_number
OutsideAllocation == {"compute", "encode", "compose", "sign", "hash", "store_pdf",
                      "store_xml", "flush", "commit"}

\* C26: the lock on the sequence row is held by a caller that is between the read
\* and the commit of the allocator and by nobody else; an issuance at any later step
\* does not hold it, so a caller waiting to read the row can do so unless another
\* caller is inside the allocator.
C26_LockOnlyInAllocator ==
    /\ seqLock # 0 => w[seqLock].pc = "alloc_commit"
    /\ \A p \in Workers : w[p].pc \in OutsideAllocation \cup {"idle"} => seqLock # p
    /\ \A q \in Workers :
        (w[q].pc = "alloc" /\ \A p \in Workers : w[p].pc # "alloc_commit") =>
            ENABLED AllocRead(q)

\* one issuance waits for its proof while another one is inside the allocator with the lock
C26_Witness ==
    \E p, q \in Workers :
        /\ w[p].pc = "sign"
        /\ w[q].pc = "alloc_commit"
        /\ seqLock = q
        /\ seq # NoVal

\* C27 as stated: however the cancellation requests for one issued invoice interleave,
\* the audit log holds at most one 'cancel' entry for it, and a request that finds
\* the row cancelled when it commits does not succeed.
C27_AtMostOneCancel ==
    /\ [](\A i \in invoices : Cardinality(CancelEntries(i.id)) <= 1)
    /\ [][\A p \in Workers :
            (w[p].pc = "cancel_commit" /\ Lookup(w[p].target).status = "cancelled") =>
                ~(w'[p].pc = "idle" /\ resp' = 200)]_vars

\* C28: no two invoice rows share an invoice_number in any committed state; an
\* issuance that reaches the step adding its row while a row with its number exists
\* ends there with 500, and the invoices, line items and audit entries stay as they were.
C28_UniqueNumbers ==
    /\ [](\A i, j \in invoices : i.invoice_number = j.invoice_number => i = j)
    /\ [][\A p \in Workers :
            (/\ w[p].pc = "flush"
             /\ \E i \in invoices : i.invoice_number = w[p].number
             /\ w'[p].pc # "flush") =>
                /\ w'[p].pc = "idle"
                /\ resp' = 500
                /\ UNCHANGED <<invoices, line_items, audit, nextId>>]_vars

\* an issuance was given the number of the existing invoice, stored its documents
\* over that invoice's keys and was ended at the step adding its row; a second
\* issuance was committed under the next number
C28_Witness ==
    /\ Cardinality(invoices) = 2
    /\ Len(allocated) = 2
    /\ \E i, j \in invoices :
        /\ i.id = 1 /\ i.invoice_number = allocated[1]
        /\ j.id = 2 /\ j.invoice_number = allocated[2]
    /\ ~use_local
    /\ \E i \in invoices : Len(OfKey(objects, i.zugferd_xml_path)) = 2
    /\ \A p \in Workers : ~Busy(p)

\* C29 as stated: the two paths of every persisted invoice are the keys of its own
\* number with the extensions pdf and xml in one and the same year partition,
\* whatever the clock read at the two store calls; different invoices have different keys.
C29_PathsSameYear ==
    /\ \A i \in invoices :
        /\ i.pdfa3_path.number = i.invoice_number /\ i.pdfa3_path.ext = "pdf"
        /\ i.zugferd_xml_path.number = i.invoice_number /\ i.zugferd_xml_path.ext = "xml"
        /\ i.pdfa3_path.year = i.zugferd_xml_path.year
    /\ \A i, j \in invoices :
        i # j => {i.pdfa3_path, i.zugferd_xml_path} \cap {j.pdfa3_path, j.zugferd_xml_path} = {}

\* the fields of the response schema Invoice (it has no tsa_token)
InvoiceSchemaFields ==
    {"id", "invoice_number", "issue_date", "currency", "seller", "buyer", "net_total",
     "tax_total", "gross_total", "pdfa3_path", "zugferd_xml_path", "pdf_hash", "status",
     "is_immutable", "created_by", "created_at", "updated_at"}

\* the body of the 201 response: the returned row serialised through response_model=Invoice
CreateResponse(row) == [f \in InvoiceSchemaFields \cap DOMAIN row |-> row[f]]

\* C30 as stated: the response to a successful creation holds the invoice's proof
\* token with its timestamp, and its number, issue date, three totals, currency and
\* content hash.
C30_ResponseHasToken ==
    \A i \in invoices :
        LET body == CreateResponse(i)
        IN  /\ {"invoice_number", "issue_date", "net_total", "tax_total", "gross_total",
                "currency", "pdf_hash"} \subseteq DOMAIN body
            /\ body.invoice_number = i.invoice_number /\ body.pdf_hash = i.pdf_hash
            /\ "tsa_token" \in DOMAIN body
            /\ body.tsa_token.timestamp = i.tsa_token.timestamp

====
